---- MODULE Spec2Model ----
(***************************************************************************)
(* Model of the tick-data pipeline: DataCleaner (validation, per-chunk     *)
(* deduplication, threaded merge) and DataInterface (interval parsing and  *)
(* threaded OHLCV aggregation).                                            *)
(*                                                                         *)
(* Text is modelled as a tuple of one-character strings, so that float(),  *)
(* int() and the interval regular expression are computed character by     *)
(* character.  A timestamp text "2024-01-DD HH:MM:SS.ffffff" is modelled   *)
(* by its fields <<DD, HH, MM, SS, ffffff>>.  None is the tuple NoneVal.   *)
(***************************************************************************)
EXTENDS Integers, Sequences, FiniteSets, TLC

VARIABLES
    \* ---- DataCleaner object ----
    data,          \* self.data: the raw rows
    stats,         \* <<self.mean_price, self.std_dev_price>>, or NoneVal
    num_threads,   \* self.num_threads
    cleaned_data,  \* self.cleaned_data
    cpc,           \* position of the caller of clean_data
    chunks,        \* data_chunks of the running clean_data call
    tstate,        \* per thread: "ready", "started", "scanned", "done", "crashed"
    local,         \* per thread: local_cleaned_data
    started,       \* number of threads the start loop has started
    joined,        \* number of threads the join loop has joined
    run,           \* which clean_data run this is (1 or 2)
    first,         \* what the first run left: its record set, whether it raised,
                   \* and the length of cleaned_data when this run began
    \* ---- parse_time_interval ----
    interval,      \* the interval text
    pstate,        \* "input", "returned" or "raised"
    timedelta,     \* the returned datetime.timedelta, in seconds
    \* ---- DataInterface object ----
    idata,         \* self.data: the cleaned rows
    inum_threads,  \* self.num_threads
    ohlcv_data,    \* self.ohlcv_data
    ipc,           \* position of the caller of generate_ohlcv
    args,          \* <<start_time, end_time, interval>> of the call
    interval_timedelta, \* the parsed interval of the call, in seconds
    wstate,        \* per worker: "ready", "running", "done"
    wchunk,        \* per worker: thread_data
    current_time,  \* per worker: current_time of _process_data_chunk
    emitted,       \* per worker: the bars it has appended (history)
    istarted,      \* number of workers the start loop has started
    ijoined        \* number of workers the join loop has joined

cvars == <<data, stats, num_threads, cleaned_data, cpc, chunks, tstate, local,
           started, joined, run, first>>

pvars == <<interval, pstate, timedelta>>

ivars == <<idata, inum_threads, ohlcv_data, ipc, args, interval_timedelta,
           wstate, wchunk, current_time, emitted, istarted, ijoined>>

vars == <<cvars, pvars, ivars>>

----------------------------------------------------------------------------
(* Bounds *)

MaxRows == 3

----------------------------------------------------------------------------
(* Generic helpers *)

NoneVal == <<"None">>

Range(s) == {s[i] : i \in 1..Len(s)}

Min(a, b) == IF a < b THEN a ELSE b

SeqsUpTo(S, n) == UNION {[1..k -> S] : k \in 0..n}

Digits == {"0", "1", "2", "3", "4", "5", "6", "7", "8", "9"}

DigitVal(c) ==
    CASE c = "0" -> 0 [] c = "1" -> 1 [] c = "2" -> 2 [] c = "3" -> 3
      [] c = "4" -> 4 [] c = "5" -> 5 [] c = "6" -> 6 [] c = "7" -> 7
      [] c = "8" -> 8 [] c = "9" -> 9

IsDigits(s) == Len(s) > 0 /\ \A i \in 1..Len(s) : s[i] \in Digits

RECURSIVE StrToNat(_)
StrToNat(s) ==
    IF s = <<>> THEN 0
    ELSE 10 * StrToNat(SubSeq(s, 1, Len(s) - 1)) + DigitVal(s[Len(s)])

----------------------------------------------------------------------------
(* Python float values: a number, nan, +inf or -inf.  Every comparison    *)
(* with nan is false.                                                      *)

FNum(v) == [k |-> "num", v |-> v]
FNan == [k |-> "nan", v |-> 0]
FPosInf == [k |-> "pinf", v |-> 0]
FNegInf == [k |-> "ninf", v |-> 0]
\* None where a float is expected (open_price, close_price before a trade)
FNone == [k |-> "none", v |-> 0]

FLt(a, b) ==
    /\ a.k # "nan" /\ b.k # "nan"
    /\ \/ a.k = "ninf" /\ b.k # "ninf"
       \/ a.k # "pinf" /\ b.k = "pinf"
       \/ a.k = "num" /\ b.k = "num" /\ a.v < b.v

FGt(a, b) == FLt(b, a)

FLe(a, b) ==
    /\ a.k # "nan" /\ b.k # "nan"
    /\ ~FLt(b, a)

\* float(text): a decimal integer with an optional sign, or "nan"; any other
\* text of the row domain raises ValueError (ok = FALSE).
PyFloat(s) ==
    IF s = <<"n", "a", "n">> THEN [ok |-> TRUE, f |-> FNan]
    ELSE IF IsDigits(s) THEN [ok |-> TRUE, f |-> FNum(StrToNat(s))]
    ELSE IF Len(s) > 1 /\ s[1] = "-" /\ IsDigits(Tail(s))
         THEN [ok |-> TRUE, f |-> FNum(0 - StrToNat(Tail(s)))]
    ELSE [ok |-> FALSE, f |-> FNan]

\* int(text): a decimal integer with an optional sign; otherwise ValueError.
PyInt(s) ==
    IF IsDigits(s) THEN [ok |-> TRUE, v |-> StrToNat(s)]
    ELSE IF Len(s) > 1 /\ s[1] = "-" /\ IsDigits(Tail(s))
         THEN [ok |-> TRUE, v |-> 0 - StrToNat(Tail(s))]
    ELSE [ok |-> FALSE, v |-> 0]

----------------------------------------------------------------------------
(* Timestamps *)

\* datetime.strptime(ts, '%Y-%m-%d %H:%M:%S.%f'): ValueError when a field is
\* out of range; otherwise seconds since the start of the month and the
\* microseconds.
Strptime(ts) ==
    IF /\ Len(ts) = 5
       /\ ts[1] \in 1..31 /\ ts[2] \in 0..23 /\ ts[3] \in 0..59
       /\ ts[4] \in 0..59 /\ ts[5] \in 0..999999
    THEN [ok |-> TRUE,
          secs |-> ts[1] * 86400 + ts[2] * 3600 + ts[3] * 60 + ts[4],
          tod |-> ts[2] * 3600 + ts[3] * 60 + ts[4],
          us |-> ts[5]]
    ELSE [ok |-> FALSE, secs |-> 0, tod |-> 0, us |-> 0]

\* datetime.time(9, 30) and datetime.time(16, 0), in seconds of the day
TradingStart == 9 * 3600 + 30 * 60
TradingEnd == 16 * 3600

\* start_time <= trade_time <= end_time on datetime.time values
InTradingHours(t) ==
    /\ t.tod >= TradingStart
    /\ \/ t.tod < TradingEnd
       \/ t.tod = TradingEnd /\ t.us = 0

----------------------------------------------------------------------------
(* DataCleaner *)

is_valid_row(row, lower_threshold, upper_threshold) ==
    LET timestamp == row[1]
        price == row[2]
        size == row[3]
        p == PyFloat(price)
        t == Strptime(timestamp)
    IN  IF timestamp = NoneVal \/ price = NoneVal \/ size = NoneVal THEN FALSE
        ELSE IF ~p.ok THEN FALSE
        ELSE IF FLt(p.f, FNum(0)) THEN FALSE
        ELSE IF FLt(p.f, lower_threshold) \/ FGt(p.f, upper_threshold) THEN FALSE
        ELSE IF ~t.ok THEN FALSE
        ELSE IF ~InTradingHours(t) THEN FALSE
        ELSE TRUE

\* One iteration of the for loop of _clean_data_chunk, without the
\* seen_rows test.
CleanStepNoSeen(st, row, lower_threshold, upper_threshold) ==
    IF ~is_valid_row(row, lower_threshold, upper_threshold) THEN st
    ELSE IF ~PyFloat(row[2]).ok \/ ~PyInt(row[3]).ok THEN st
    ELSE [seen |-> st.seen \cup {row}, out |-> Append(st.out, row)]

\* One iteration of the for loop of _clean_data_chunk on the loop state
\* st = [seen |-> seen_rows, out |-> local_cleaned_data].
CleanStep(st, row, lower_threshold, upper_threshold) ==
    IF ~is_valid_row(row, lower_threshold, upper_threshold) THEN st
    ELSE IF ~PyFloat(row[2]).ok \/ ~PyInt(row[3]).ok THEN st
    ELSE IF row \notin st.seen
         THEN [seen |-> st.seen \cup {row}, out |-> Append(st.out, row)]
    ELSE st

RECURSIVE CleanLoop(_, _, _, _)
CleanLoop(chunk, st, lower_threshold, upper_threshold) ==
    IF chunk = <<>> THEN st
    ELSE CleanLoop(Tail(chunk),
                   CleanStep(st, Head(chunk), lower_threshold, upper_threshold),
                   lower_threshold, upper_threshold)

LowerThreshold(st) == FNum(st[1] - 2 * st[2])
UpperThreshold(st) == FNum(st[1] + 2 * st[2])

\* local_cleaned_data of _clean_data_chunk at the end of its loop
LocalCleaned(chunk, st) ==
    CleanLoop(chunk, [seen |-> {}, out |-> <<>>],
              LowerThreshold(st), UpperThreshold(st)).out

\* self.cleaned_data = local_cleaned_data in place of extend
ExtendOverwrite(shared, loc) == loc

\* self.cleaned_data.extend(local_cleaned_data)
Extend(shared, loc) == shared \o loc

\* _split_data_among_threads: range(0, len, 0) raises ValueError
SplitRaises(d, n) == Len(d) \div n = 0

SplitChunks(d, n) ==
    LET chunk_size == Len(d) \div n
        count == (Len(d) + chunk_size - 1) \div chunk_size
    IN  [j \in 1..count |->
            SubSeq(d, (j - 1) * chunk_size + 1, Min(j * chunk_size, Len(d)))]

----------------------------------------------------------------------------
(* Inputs of the cleaning stage *)

T0931 == <<2, 9, 31, 0, 0>>

RawRows ==
    { <<T0931, <<"1", "0">>, <<"5">>>>,                    \* valid
      <<<<2, 9, 31, 30, 0>>, <<"1", "2">>, <<"3">>>>,      \* valid
      <<T0931, <<"-", "5">>, <<"5">>>>,                    \* negative price
      <<T0931, <<"n", "a", "n">>, <<"5">>>>,               \* float("nan")
      <<<<2, 16, 0, 0, 1>>, <<"1", "0">>, <<"5">>>>,       \* 16:00:00.000001
      <<T0931, <<"1", "0">>, <<"x">>>>,                    \* size is no integer
      <<T0931, <<"9", "9">>, <<"5">>>> }                   \* price out of range

StatsChoices == { <<11, 5>>, NoneVal }

ThreadChoices == {1, 2}

NoFirst == [rows |-> {}, raised |-> FALSE, kind |-> "none", base |-> 0]

CleanInit ==
    /\ data \in SeqsUpTo(RawRows, MaxRows)
    /\ stats \in StatsChoices
    /\ num_threads \in ThreadChoices
    /\ cleaned_data = <<>>
    /\ cpc = "idle"
    /\ chunks = <<>>
    /\ tstate = <<>>
    /\ local = <<>>
    /\ started = 0
    /\ joined = 0
    /\ run = 1
    /\ first = NoFirst
    \* no interval is parsed and no DataInterface exists
    /\ interval = <<>>
    /\ pstate = "input"
    /\ timedelta = 0
    /\ idata = <<>>
    /\ inum_threads = 1
    /\ ohlcv_data = <<>>
    /\ ipc = "idle"
    /\ args = <<>>
    /\ interval_timedelta = 0
    /\ wstate = <<>>
    /\ wchunk = <<>>
    /\ current_time = <<>>
    /\ emitted = <<>>
    /\ istarted = 0
    /\ ijoined = 0

\* clean_data up to the start loop: split the data, or raise
CleanDataCall ==
    /\ cpc = "idle"
    /\ IF SplitRaises(data, num_threads)
       THEN /\ cpc' = "raised"
            /\ UNCHANGED <<chunks, tstate, local>>
       ELSE /\ cpc' = "starting"
            /\ chunks' = SplitChunks(data, num_threads)
            /\ tstate' = [j \in 1..Len(SplitChunks(data, num_threads)) |-> "ready"]
            /\ local' = [j \in 1..Len(SplitChunks(data, num_threads)) |-> <<>>]
    /\ started' = 0
    /\ joined' = 0
    /\ UNCHANGED <<data, stats, num_threads, cleaned_data, run, first>>
    /\ UNCHANGED <<pvars, ivars>>

\* one iteration of the start loop
StartThread ==
    /\ cpc = "starting"
    /\ started < Len(chunks)
    /\ started' = started + 1
    /\ tstate' = [tstate EXCEPT ![started + 1] = "started"]
    /\ UNCHANGED <<data, stats, num_threads, cleaned_data, cpc, chunks, local,
                   joined, run, first>>
    /\ UNCHANGED <<pvars, ivars>>

\* the start loop is over
StartDone ==
    /\ cpc = "starting"
    /\ started = Len(chunks)
    /\ cpc' = "joining"
    /\ UNCHANGED <<data, stats, num_threads, cleaned_data, chunks, tstate, local,
                   started, joined, run, first>>
    /\ UNCHANGED <<pvars, ivars>>

\* _clean_data_chunk up to the lock: thresholds (TypeError on None
\* statistics ends the thread) and the loop over the chunk
ScanChunk(j) ==
    /\ j \in 1..Len(chunks)
    /\ tstate[j] = "started"
    /\ IF stats = NoneVal
       THEN /\ tstate' = [tstate EXCEPT ![j] = "crashed"]
            /\ UNCHANGED local
       ELSE /\ tstate' = [tstate EXCEPT ![j] = "scanned"]
            /\ local' = [local EXCEPT ![j] = LocalCleaned(chunks[j], stats)]
    /\ UNCHANGED <<data, stats, num_threads, cleaned_data, cpc, chunks,
                   started, joined, run, first>>
    /\ UNCHANGED <<pvars, ivars>>

\* with self.data_lock: self.cleaned_data.extend(local_cleaned_data)
AppendChunk(j) ==
    /\ j \in 1..Len(chunks)
    /\ tstate[j] = "scanned"
    /\ cleaned_data' = Extend(cleaned_data, local[j])
    /\ tstate' = [tstate EXCEPT ![j] = "done"]
    /\ UNCHANGED <<data, stats, num_threads, cpc, chunks, local,
                   started, joined, run, first>>
    /\ UNCHANGED <<pvars, ivars>>

\* thread.join() returns at once, whatever the thread is doing
ThreadEndedOrNot(s) == TRUE

\* thread.join() returns once the thread has ended: its target returned, or
\* an exception left it
ThreadEnded(s) == s \in {"done", "crashed"}

\* one iteration of the join loop: thread.join() returns once the thread ended
JoinThread ==
    /\ cpc = "joining"
    /\ joined < Len(chunks)
    /\ ThreadEnded(tstate[joined + 1])
    /\ joined' = joined + 1
    /\ UNCHANGED <<data, stats, num_threads, cleaned_data, cpc, chunks, tstate,
                   local, started, run, first>>
    /\ UNCHANGED <<pvars, ivars>>

\* the join loop is over: clean_data returns
CleanDataReturn ==
    /\ cpc = "joining"
    /\ joined = Len(chunks)
    /\ cpc' = "returned"
    /\ UNCHANGED <<data, stats, num_threads, cleaned_data, chunks, tstate, local,
                   started, joined, run, first>>
    /\ UNCHANGED <<pvars, ivars>>

CleanFinished == cpc \in {"returned", "raised"}

\* the caller makes a second clean_data call on the same DataCleaner
RerunSame ==
    /\ run = 1
    /\ CleanFinished
    /\ run' = 2
    /\ first' = [rows |-> Range(cleaned_data), raised |-> cpc = "raised",
                 kind |-> "same", base |-> Len(cleaned_data)]
    /\ cpc' = "idle"
    /\ chunks' = <<>>
    /\ tstate' = <<>>
    /\ local' = <<>>
    /\ started' = 0
    /\ joined' = 0
    /\ UNCHANGED <<data, stats, num_threads, cleaned_data>>
    /\ UNCHANGED <<pvars, ivars>>

\* the caller makes the second run on a new DataCleaner of the same loader
RerunFresh ==
    /\ run = 1
    /\ CleanFinished
    /\ run' = 2
    /\ first' = [rows |-> Range(cleaned_data), raised |-> cpc = "raised",
                 kind |-> "fresh", base |-> 0]
    /\ cleaned_data' = <<>>
    /\ cpc' = "idle"
    /\ chunks' = <<>>
    /\ tstate' = <<>>
    /\ local' = <<>>
    /\ started' = 0
    /\ joined' = 0
    /\ UNCHANGED <<data, stats, num_threads>>
    /\ UNCHANGED <<pvars, ivars>>

CleanNext ==
    \/ CleanDataCall
    \/ StartThread
    \/ StartDone
    \/ \E j \in 1..Len(chunks) : ScanChunk(j)
    \/ \E j \in 1..Len(chunks) : AppendChunk(j)
    \/ JoinThread
    \/ CleanDataReturn
    \/ RerunSame
    \/ RerunFresh

SpecClean == CleanInit /\ [][CleanNext]_vars

----------------------------------------------------------------------------
(* Properties of the cleaning stage *)

\* The row passes is_valid_row and the int(size) coercion under statistics st
RowAccepted(row, st) ==
    /\ is_valid_row(row, LowerThreshold(st), UpperThreshold(st))
    /\ PyInt(row[3]).ok

\* What the data model promises of a cleaned record: a parsed price that is
\* >= 0 and within [mean - 2*stddev, mean + 2*stddev], and a time of day
\* within [09:30:00, 16:00:00]
RecordInvariant(row, st) ==
    /\ PyFloat(row[2]).ok
    /\ FLe(FNum(0), PyFloat(row[2]).f)
    /\ FLe(LowerThreshold(st), PyFloat(row[2]).f)
    /\ FLe(PyFloat(row[2]).f, UpperThreshold(st))
    /\ Strptime(row[1]).ok
    /\ InTradingHours(Strptime(row[1]))

\* C1: after clean_data completes every record of the cleaned collection has
\* a price that parses to a value >= 0 within [mean - 2*stddev, mean +
\* 2*stddev] and a time of day within [09:30:00, 16:00:00]; a record priced
\* -5 is never in the cleaned collection.
C1_CleanedRecordsValid ==
    cpc = "returned" =>
        \A i \in 1..Len(cleaned_data) :
            /\ stats # NoneVal
            /\ RecordInvariant(cleaned_data[i], stats)
            /\ cleaned_data[i][2] # <<"-", "5">>

\* C2: the cleaning stage splits the raw collection into exactly num_threads
\* contiguous partitions that are disjoint and cover every raw record, the
\* last one absorbing the remainder.
C2_ExactlyWorkerCountPartitions ==
    cpc \in {"starting", "joining", "returned"} =>
        /\ Len(chunks) = num_threads
        /\ \A j \in 1..Len(chunks) :
              LET size == Len(data) \div num_threads
                  lo == (j - 1) * size
                  hi == IF j = Len(chunks) THEN Len(data) ELSE j * size
              IN  chunks[j] = SubSeq(data, lo + 1, hi)

\* C3: for every positive worker count and every raw collection (also one
\* with fewer records than workers, and an empty one) clean_data completes
\* without raising and yields the valid records.
C3_CleaningNeverRaises ==
    /\ cpc # "raised"
    /\ (cpc = "returned" /\ stats # NoneVal) =>
          Range(cleaned_data) = {r \in Range(data) : RowAccepted(r, stats)}

\* The rows of chunk at the positions of the first occurrences of its
\* accepted rows, in chunk order
FirstOccurrences(chunk, st) ==
    LET keep == {i \in 1..Len(chunk) :
                    /\ RowAccepted(chunk[i], st)
                    /\ \A k \in 1..(i - 1) : chunk[k] # chunk[i]}
        nth(n) == CHOOSE i \in keep : Cardinality({k \in keep : k < i}) = n - 1
    IN  [n \in 1..Cardinality(keep) |-> chunk[nth(n)]]

\* C4: in the output of one worker partition no two records share the same
\* raw (timestamp, price, size) triple: exactly the first occurrence of each
\* distinct accepted triple of the partition is emitted.
C4_NoDuplicateInPartitionOutput ==
    \A j \in 1..Len(chunks) :
        tstate[j] \in {"scanned", "done"} =>
            /\ \A a, b \in 1..Len(local[j]) : a # b => local[j][a] # local[j][b]
            /\ local[j] = FirstOccurrences(chunks[j], stats)

\* A worker has finished a partition that holds an accepted triple twice
C4_Witness ==
    \E j \in 1..Len(chunks) :
        /\ tstate[j] = "done"
        /\ stats # NoneVal
        /\ \E a, b \in 1..Len(chunks[j]) :
              /\ a < b
              /\ chunks[j][a] = chunks[j][b]
              /\ RowAccepted(chunks[j][a], stats)
        /\ Len(local[j]) >= 1

\* C5: a second cleaning run on the same raw input, statistics and worker
\* count ends as the first did and leaves the same set of cleaned records,
\* whatever the interleaving of the workers, on a new cleaner and on the
\* cleaner of the first run.
C5_RerunSameSet ==
    (run = 2 /\ CleanFinished) =>
        /\ Range(cleaned_data) = first.rows
        /\ (cpc = "raised") = first.raised

\* The second run on the cleaner of the first run has returned, with two
\* workers that each emitted records
C5_Witness ==
    /\ run = 2
    /\ first.kind = "same"
    /\ cpc = "returned"
    /\ first.rows # {}
    /\ \E a, b \in 1..Len(chunks) : a # b /\ local[a] # <<>> /\ local[b] # local[a]

\* The second run on a new cleaner has returned with records
C5_WitnessFresh ==
    /\ run = 2
    /\ first.kind = "fresh"
    /\ cpc = "returned"
    /\ cleaned_data # <<>>

----------------------------------------------------------------------------
(* DataInterface: interval texts *)

\* The end of the run of digits that starts at position p of s
RECURSIVE DigitRunEnd(_, _)
DigitRunEnd(s, p) ==
    IF p <= Len(s) /\ s[p] \in Digits THEN DigitRunEnd(s, p + 1) ELSE p

\* (?:(\d+)u)? tried at position p: the greedy digit run then the unit
\* letter, or the empty match with the group unset
OptionalComponent(s, p, u) ==
    LET q == DigitRunEnd(s, p)
    IN  IF q > p /\ q <= Len(s) /\ s[q] = u
        THEN [next |-> q + 1, group |-> SubSeq(s, p, q - 1)]
        ELSE [next |-> p, group |-> NoneVal]

\* $ without re.MULTILINE: at the end of the text, or just before a newline
\* that is its last character
AtEnd(s, p) ==
    \/ p = Len(s) + 1
    \/ p = Len(s) /\ s[p] = "\n"

\* re.match(r'^(?:(\d+)d)?(?:(\d+)h)?(?:(\d+)m)?(?:(\d+)s)?$', interval):
\* the groups of the match, or no match
validate_time_interval(text) ==
    LET d == OptionalComponent(text, 1, "d")
        h == OptionalComponent(text, d.next, "h")
        m == OptionalComponent(text, h.next, "m")
        s == OptionalComponent(text, m.next, "s")
    IN  IF AtEnd(text, s.next)
        THEN [match |-> TRUE, groups |-> <<d.group, h.group, m.group, s.group>>]
        ELSE [match |-> FALSE, groups |-> <<>>]

\* int(match.group(n) or 0)
GroupOrZero(g) == IF g = NoneVal THEN 0 ELSE PyInt(g).v

\* parse_time_interval: ValueError from the validation, or the timedelta in
\* seconds
parse_time_interval(text) ==
    LET match == validate_time_interval(text)
    IN  IF ~match.match THEN [ok |-> FALSE, seconds |-> 0]
        ELSE [ok |-> TRUE,
              seconds |-> GroupOrZero(match.groups[1]) * 86400
                          + GroupOrZero(match.groups[2]) * 3600
                          + GroupOrZero(match.groups[3]) * 60
                          + GroupOrZero(match.groups[4])]

MaxText == 3

IntervalAlphabet == {"1", "0", "h", "m", "s", "x", "\n"}

ExampleTexts ==
    { <<"1", "h", "3", "0", "m">>,
      <<"3", "0", "m", "1", "h">>,
      <<"x", "y", "z">>,
      <<"1", "d", "2", "h", "3", "m", "4", "s">>,
      <<"1", "h", "3", "0", "m", "\n">>,
      <<"1", "5", "m">>,
      <<"2", "h">>,
      <<"1", "d">> }

IntervalTexts == SeqsUpTo(IntervalAlphabet, MaxText) \cup ExampleTexts

IntervalInit ==
    /\ interval \in IntervalTexts
    /\ pstate = "input"
    /\ timedelta = 0
    \* no DataCleaner and no DataInterface exist
    /\ data = <<>>
    /\ stats = NoneVal
    /\ num_threads = 1
    /\ cleaned_data = <<>>
    /\ cpc = "idle"
    /\ chunks = <<>>
    /\ tstate = <<>>
    /\ local = <<>>
    /\ started = 0
    /\ joined = 0
    /\ run = 1
    /\ first = NoFirst
    /\ idata = <<>>
    /\ inum_threads = 1
    /\ ohlcv_data = <<>>
    /\ ipc = "idle"
    /\ args = <<>>
    /\ interval_timedelta = 0
    /\ wstate = <<>>
    /\ wchunk = <<>>
    /\ current_time = <<>>
    /\ emitted = <<>>
    /\ istarted = 0
    /\ ijoined = 0

\* a call parse_time_interval(interval)
ParseInterval ==
    /\ pstate = "input"
    /\ LET r == parse_time_interval(interval)
       IN  /\ pstate' = IF r.ok THEN "returned" ELSE "raised"
           /\ timedelta' = r.seconds
    /\ UNCHANGED interval
    /\ UNCHANGED <<cvars, ivars>>

IntervalNext == ParseInterval

SpecInterval == IntervalInit /\ [][IntervalNext]_vars

----------------------------------------------------------------------------
(* Properties of parse_time_interval *)

\* seg is empty, or digits followed by the unit letter u
GrammarComponent(seg, u) ==
    \/ seg = <<>>
    \/ /\ Len(seg) >= 2
       /\ seg[Len(seg)] = u
       /\ IsDigits(SubSeq(seg, 1, Len(seg) - 1))

ComponentValue(seg) ==
    IF seg = <<>> THEN 0 ELSE StrToNat(SubSeq(seg, 1, Len(seg) - 1))

\* The durations the grammar [<digits>d][<digits>h][<digits>m][<digits>s]
\* gives the text: one value when the text is in the grammar, none otherwise
GrammarDurations(text) ==
    { ComponentValue(SubSeq(text, 1, i)) * 86400
      + ComponentValue(SubSeq(text, i + 1, j)) * 3600
      + ComponentValue(SubSeq(text, j + 1, k)) * 60
      + ComponentValue(SubSeq(text, k + 1, Len(text))) :
        <<i, j, k>> \in
          { c \in (0..Len(text)) \X (0..Len(text)) \X (0..Len(text)) :
              /\ c[1] <= c[2] /\ c[2] <= c[3]
              /\ GrammarComponent(SubSeq(text, 1, c[1]), "d")
              /\ GrammarComponent(SubSeq(text, c[1] + 1, c[2]), "h")
              /\ GrammarComponent(SubSeq(text, c[2] + 1, c[3]), "m")
              /\ GrammarComponent(SubSeq(text, c[3] + 1, Len(text)), "s") } }

InGrammar(text) == GrammarDurations(text) # {}

\* C6: parse_time_interval accepts exactly the texts of the grammar
\* [<digits>d][<digits>h][<digits>m][<digits>s] and returns days*86400 +
\* hours*3600 + minutes*60 + seconds ("1h30m" gives 5400, "" gives 0); every
\* other text fails with a format error.
C6_AcceptsExactlyGrammar ==
    pstate # "input" =>
        /\ (pstate = "returned") = InGrammar(interval)
        /\ pstate = "returned" => timedelta \in GrammarDurations(interval)
        /\ interval = <<"1", "h", "3", "0", "m">> =>
              pstate = "returned" /\ timedelta = 5400
        /\ interval = <<>> => pstate = "returned" /\ timedelta = 0
        /\ interval \in {<<"x", "y", "z">>, <<"3", "0", "m", "1", "h">>} =>
              pstate = "raised"

\* What the code does hold to: the texts of the grammar are accepted with
\* the grammar's duration, and an accepted text is a text of the grammar
\* with at most one newline after it
C6_AcceptsGrammarOrTrailingNewline ==
    pstate # "input" =>
        /\ InGrammar(interval) =>
              pstate = "returned" /\ timedelta \in GrammarDurations(interval)
        /\ pstate = "returned" =>
              \/ InGrammar(interval)
              \/ /\ interval # <<>>
                 /\ interval[Len(interval)] = "\n"
                 /\ timedelta \in
                      GrammarDurations(SubSeq(interval, 1, Len(interval) - 1))

----------------------------------------------------------------------------
(* DataInterface: generate_ohlcv *)

\* max(a, b) and min(a, b) of Python: the first argument unless the second
\* compares greater (less)
PyMax(a, b) == IF FGt(b, a) THEN b ELSE a
PyMin(a, b) == IF FLt(b, a) THEN b ELSE a

\* current_time <= trade_time <= interval_end_time
InBucketClosed(row, from, to) ==
    LET t == Strptime(row[1]) IN from <= t.secs /\ t.secs <= to

\* current_time <= trade_time < interval_end_time, the bounds being whole
\* seconds
InBucket(row, from, to) ==
    LET t == Strptime(row[1]) IN from <= t.secs /\ t.secs < to

\* The state of one interval of _process_data_chunk before its row loop
NoTrades ==
    [open |-> FNone, high |-> FNegInf, low |-> FPosInf, close |-> FNone,
     volume |-> 0]

\* One iteration of the row loop of _process_data_chunk
TradeStep(acc, row, from, to) ==
    IF ~InBucket(row, from, to) THEN acc
    ELSE LET price == PyFloat(row[2]).f
             size == PyFloat(row[3]).f.v
         IN  [open |-> IF acc.open = FNone THEN price ELSE acc.open,
              high |-> PyMax(acc.high, price),
              low |-> PyMin(acc.low, price),
              close |-> price,
              volume |-> acc.volume + size]

RECURSIVE TradeLoop(_, _, _, _)
TradeLoop(chunk, acc, from, to) ==
    IF chunk = <<>> THEN acc
    ELSE TradeLoop(Tail(chunk), TradeStep(acc, Head(chunk), from, to), from, to)

\* The walk goes on although the interval ends after end_time
WalkStopsNever(cur, td, to) == ~(cur < to)

\* The walk of _process_data_chunk ends: the while condition fails, or the
\* interval would end after end_time
WalkStops(cur, td, to) == ~(cur < to) \/ cur + td > to

\* Every worker takes chunk_size rows, the remainder goes to nobody
ThreadDataNoRemainder(d, n, i) ==
    LET chunk_size == Len(d) \div n
    IN  SubSeq(d, (i - 1) * chunk_size + 1, i * chunk_size)

\* thread_data of worker i (1-based) of generate_ohlcv
ThreadData(d, n, i) ==
    LET chunk_size == Len(d) \div n
        start_index == (i - 1) * chunk_size
        end_index == IF i # n THEN i * chunk_size ELSE Len(d)
    IN  SubSeq(d, start_index + 1, end_index)

MaxClean == 3

\* Rows a cleaning run can leave in cleaned_data
TickRows ==
    RawRows \cup { <<<<2, 9, 32, 10, 0>>, <<"1", "1">>, <<"2">>>> }

CleanedRows == {r \in TickRows : RowAccepted(r, <<11, 5>>)}

WorkerChoices == {1, 2}

Clock(h, m, s) == 2 * 86400 + h * 3600 + m * 60 + s

StartTimes == {Clock(9, 31, 0), Clock(9, 31, 30)}

EndTimes == {Clock(9, 30, 0), Clock(9, 32, 0), Clock(9, 32, 30), Clock(9, 33, 0)}

CallTexts ==
    { <<"1", "m">>, <<"3", "0", "s">>, <<"2", "h">>, <<"x", "y", "z">>,
      <<"1", "m", "\n">>, <<"0", "s">>, <<>> }

OhlcvInit ==
    /\ idata \in SeqsUpTo(CleanedRows, MaxClean)
    /\ inum_threads \in WorkerChoices
    /\ ohlcv_data = <<>>
    /\ ipc = "idle"
    /\ args = <<>>
    /\ interval_timedelta = 0
    /\ wstate = <<>>
    /\ wchunk = <<>>
    /\ current_time = <<>>
    /\ emitted = <<>>
    /\ istarted = 0
    /\ ijoined = 0
    \* the cleaner is not part of this stage, and no interval is parsed
    \* outside generate_ohlcv
    /\ data = <<>>
    /\ stats = NoneVal
    /\ num_threads = 1
    /\ cleaned_data = <<>>
    /\ cpc = "idle"
    /\ chunks = <<>>
    /\ tstate = <<>>
    /\ local = <<>>
    /\ started = 0
    /\ joined = 0
    /\ run = 1
    /\ first = NoFirst
    /\ interval = <<>>
    /\ pstate = "input"
    /\ timedelta = 0

\* generate_ohlcv up to the start loop: parse the interval and compare it
\* with the window, raising ValueError from either
GenerateOhlcvCall(start_time, end_time, text) ==
    /\ ipc = "idle"
    /\ args' = <<start_time, end_time, text>>
    /\ LET td == parse_time_interval(text)
       IN  IF ~td.ok \/ (end_time - start_time) < td.seconds
           THEN /\ ipc' = "raised"
                /\ UNCHANGED <<interval_timedelta, wstate, wchunk, current_time,
                               emitted>>
           ELSE /\ ipc' = "starting"
                /\ interval_timedelta' = td.seconds
                /\ wstate' = [i \in 1..inum_threads |-> "ready"]
                /\ wchunk' = [i \in 1..inum_threads |-> <<>>]
                /\ current_time' = [i \in 1..inum_threads |-> start_time]
                /\ emitted' = [i \in 1..inum_threads |-> <<>>]
    /\ istarted' = 0
    /\ ijoined' = 0
    /\ UNCHANGED <<idata, inum_threads, ohlcv_data>>
    /\ UNCHANGED <<cvars, pvars>>

\* one iteration of the start loop
StartWorker ==
    /\ ipc = "starting"
    /\ istarted < inum_threads
    /\ istarted' = istarted + 1
    /\ wchunk' = [wchunk EXCEPT
                    ![istarted + 1] = ThreadData(idata, inum_threads, istarted + 1)]
    /\ wstate' = [wstate EXCEPT ![istarted + 1] = "running"]
    /\ UNCHANGED <<idata, inum_threads, ohlcv_data, ipc, args, interval_timedelta,
                   current_time, emitted, ijoined>>
    /\ UNCHANGED <<cvars, pvars>>

\* the start loop is over
StartWorkersDone ==
    /\ ipc = "starting"
    /\ istarted = inum_threads
    /\ ipc' = "joining"
    /\ UNCHANGED <<idata, inum_threads, ohlcv_data, args, interval_timedelta,
                   wstate, wchunk, current_time, emitted, istarted, ijoined>>
    /\ UNCHANGED <<cvars, pvars>>

\* one pass of the while loop of _process_data_chunk in worker w: leave the
\* loop, or scan the chunk for the current interval, append its bar under
\* the lock when a trade matched, and move on to the next interval
WorkerStep(w) ==
    /\ w \in 1..Len(wstate)
    /\ wstate[w] = "running"
    /\ IF WalkStops(current_time[w], interval_timedelta, args[2])
       THEN /\ wstate' = [wstate EXCEPT ![w] = "done"]
            /\ UNCHANGED <<ohlcv_data, current_time, emitted>>
       ELSE LET interval_end_time == current_time[w] + interval_timedelta
                acc == TradeLoop(wchunk[w], NoTrades, current_time[w],
                                 interval_end_time)
                bar == <<current_time[w], acc.open, acc.high, acc.low,
                         acc.close, acc.volume>>
            IN  /\ IF acc.open # FNone
                   THEN /\ ohlcv_data' = Append(ohlcv_data, bar)
                        /\ emitted' = [emitted EXCEPT ![w] = Append(@, bar)]
                   ELSE UNCHANGED <<ohlcv_data, emitted>>
                /\ current_time' = [current_time EXCEPT ![w] = interval_end_time]
                /\ UNCHANGED wstate
    /\ UNCHANGED <<idata, inum_threads, ipc, args, interval_timedelta, wchunk,
                   istarted, ijoined>>
    /\ UNCHANGED <<cvars, pvars>>

\* one iteration of the join loop
JoinWorker ==
    /\ ipc = "joining"
    /\ ijoined < inum_threads
    /\ wstate[ijoined + 1] = "done"
    /\ ijoined' = ijoined + 1
    /\ UNCHANGED <<idata, inum_threads, ohlcv_data, ipc, args, interval_timedelta,
                   wstate, wchunk, current_time, emitted, istarted>>
    /\ UNCHANGED <<cvars, pvars>>

\* the join loop is over: generate_ohlcv returns
GenerateOhlcvReturn ==
    /\ ipc = "joining"
    /\ ijoined = inum_threads
    /\ ipc' = "returned"
    /\ UNCHANGED <<idata, inum_threads, ohlcv_data, args, interval_timedelta,
                   wstate, wchunk, current_time, emitted, istarted, ijoined>>
    /\ UNCHANGED <<cvars, pvars>>

OhlcvNext ==
    \/ \E s \in StartTimes, e \in EndTimes, text \in CallTexts :
          GenerateOhlcvCall(s, e, text)
    \/ StartWorker
    \/ StartWorkersDone
    \/ \E w \in 1..Len(wstate) : WorkerStep(w)
    \/ JoinWorker
    \/ GenerateOhlcvReturn

SpecOhlcv == OhlcvInit /\ [][OhlcvNext]_vars

----------------------------------------------------------------------------
(* Properties of generate_ohlcv *)

CallStart == args[1]
CallEnd == args[2]
CallText == args[3]

BucketStart(bar) == bar[1]

\* The positions of the rows of chunk whose timestamp t satisfies
\* b <= t < b + td
TradesIn(chunk, b, td) ==
    {i \in 1..Len(chunk) :
        /\ b <= Strptime(chunk[i][1]).secs
        /\ Strptime(chunk[i][1]).secs < b + td}

PriceOf(row) == PyFloat(row[2]).f

RECURSIVE SumSizes(_, _)
SumSizes(chunk, idx) ==
    IF idx = {} THEN 0
    ELSE LET i == CHOOSE x \in idx : TRUE
         IN  PyInt(chunk[i][3]).v + SumSizes(chunk, idx \ {i})

\* C7: generate_ohlcv fails when the interval text is malformed or when
\* end - start < interval, before any worker is started and with the bar
\* collection unchanged.
C7_BadCallFails ==
    (ipc # "idle"
     /\ \/ ~InGrammar(CallText)
        \/ \E d \in GrammarDurations(CallText) : CallEnd - CallStart < d) =>
        /\ ipc = "raised"
        /\ wstate = <<>>
        /\ istarted = 0
        /\ ohlcv_data = <<>>

\* What holds of the code: a text that parse_time_interval rejects, or a
\* window shorter than the parsed interval, fails before any worker starts
C7_RejectedCallFails ==
    (ipc # "idle"
     /\ \/ ~parse_time_interval(CallText).ok
        \/ CallEnd - CallStart < parse_time_interval(CallText).seconds) =>
        /\ ipc = "raised"
        /\ wstate = <<>>
        /\ istarted = 0
        /\ ohlcv_data = <<>>

\* The n-th bar of worker w is the open, high, low, close and volume of the
\* rows of its chunk in the bar's bucket
BarCorrect(w, n) ==
    LET bar == emitted[w][n]
        idx == TradesIn(wchunk[w], BucketStart(bar), interval_timedelta)
        firstIdx == CHOOSE i \in idx : \A k \in idx : i <= k
        lastIdx == CHOOSE i \in idx : \A k \in idx : k <= i
    IN  /\ idx # {}
        /\ bar[2] = PriceOf(wchunk[w][firstIdx])
        /\ bar[5] = PriceOf(wchunk[w][lastIdx])
        /\ \E i \in idx : bar[3] = PriceOf(wchunk[w][i])
        /\ \A i \in idx : FLe(PriceOf(wchunk[w][i]), bar[3])
        /\ \E i \in idx : bar[4] = PriceOf(wchunk[w][i])
        /\ \A i \in idx : FLe(bar[4], PriceOf(wchunk[w][i]))
        /\ bar[6] = SumSizes(wchunk[w], idx)
        /\ FLe(bar[4], bar[2]) /\ FLe(bar[2], bar[3])
        /\ FLe(bar[4], bar[5]) /\ FLe(bar[5], bar[3])

ExampleRows ==
    << <<T0931, <<"1", "0">>, <<"5">>>>,
       <<<<2, 9, 31, 30, 0>>, <<"1", "2">>, <<"3">>>> >>

ExampleBar ==
    <<Clock(9, 31, 0), FNum(10), FNum(12), FNum(10), FNum(12), 8>>

\* C8: every bar a worker emits has open = the price of the first record of
\* its chunk in the bucket, close = that of the last, high = the maximum and
\* low = the minimum of their prices, volume = the sum of their sizes, so
\* low <= open <= high and low <= close <= high; one worker on the records
\* priced 10 (size 5) and 12 (size 3) in one 1-minute bucket gives exactly
\* the bar open=10, high=12, low=10, close=12, volume=8.
C8_BarValues ==
    /\ \A w \in 1..Len(emitted) : \A n \in 1..Len(emitted[w]) : BarCorrect(w, n)
    /\ (/\ ipc = "returned"
        /\ inum_threads = 1
        /\ idata = ExampleRows
        /\ args = <<Clock(9, 31, 0), Clock(9, 32, 0), <<"1", "m">>>>) =>
          ohlcv_data = <<ExampleBar>>

HasNanPrice(chunk) == \E i \in 1..Len(chunk) : PriceOf(chunk[i]) = FNan

\* What holds of the code: the same, for the workers whose chunk holds no
\* record priced nan
C8_BarValuesWithoutNan ==
    /\ \A w \in 1..Len(emitted) : \A n \in 1..Len(emitted[w]) :
          ~HasNanPrice(wchunk[w]) => BarCorrect(w, n)
    /\ (/\ ipc = "returned"
        /\ inum_threads = 1
        /\ idata = ExampleRows
        /\ args = <<Clock(9, 31, 0), Clock(9, 32, 0), <<"1", "m">>>>) =>
          ohlcv_data = <<ExampleBar>>

\* bar starts a whole bucket of the window: start + k*interval for a k >= 0,
\* the bucket ending at or before end
OnWholeBucket(bar) ==
    /\ interval_timedelta > 0
    /\ \E k \in 0..((CallEnd - CallStart) \div interval_timedelta) :
          BucketStart(bar) = CallStart + k * interval_timedelta
    /\ BucketStart(bar) + interval_timedelta <= CallEnd

\* C9: every bar of the collection starts at start + k*interval, k >= 0,
\* with bucket_start + interval <= end, and comes from a worker whose chunk
\* holds a record with bucket_start <= t < bucket_start + interval: a worker
\* emits no bar for a bucket without such a record, and nobody emits a bar
\* for a trailing partial bucket.
C9_BarsOnWholeBuckets ==
    /\ \A n \in 1..Len(ohlcv_data) :
          /\ OnWholeBucket(ohlcv_data[n])
          /\ \E w \in 1..Len(emitted) : ohlcv_data[n] \in Range(emitted[w])
    /\ \A w \in 1..Len(emitted) : \A n \in 1..Len(emitted[w]) :
          /\ emitted[w][n] \in Range(ohlcv_data)
          /\ TradesIn(wchunk[w], BucketStart(emitted[w][n]), interval_timedelta)
               # {}

\* A call over a window with a trailing partial bucket that holds a record
\* has returned with a bar
C9_Witness ==
    /\ ipc = "returned"
    /\ interval_timedelta = 60
    /\ CallEnd = Clock(9, 32, 30)
    /\ TradesIn(idata, Clock(9, 32, 0), 60) # {}
    /\ ohlcv_data # <<>>

BarsAt(bars, b) == {n \in 1..Len(bars) : BucketStart(bars[n]) = b}

\* The starts of the whole buckets of the window
WholeBuckets ==
    {CallStart + k * interval_timedelta :
        k \in {j \in 0..((CallEnd - CallStart) \div interval_timedelta) :
                 CallStart + (j + 1) * interval_timedelta <= CallEnd}}

----------------------------------------------------------------------------
(* The merge of the cleaning workers *)

BlockOrders(n) ==
    {p \in [1..n -> 1..n] : \A a, b \in 1..n : a # b => p[a] # p[b]}

\* local[p[1]] \o local[p[2]] \o ... : the workers' outputs as whole blocks
\* in the order p
RECURSIVE ConcatInOrder(_, _)
ConcatInOrder(blocks, p) ==
    IF p = <<>> THEN <<>>
    ELSE blocks[Head(p)] \o ConcatInOrder(blocks, Tail(p))

\* What this run has added to cleaned_data
AddedByRun == SubSeq(cleaned_data, first.base + 1, Len(cleaned_data))

\* C11: under every interleaving, when clean_data returns every worker has
\* finished and what the run added to the cleaned collection is the
\* concatenation, in some order of the partitions, of each partition's whole
\* local output: one contiguous block per worker in partition order, no
\* append lost or applied twice.
C11_MergeIsConcatenationOfBlocks ==
    cpc = "returned" =>
        /\ \A j \in 1..Len(chunks) : tstate[j] \in {"done", "crashed"}
        /\ \A j \in 1..Len(chunks) :
              tstate[j] = "done" => local[j] = FirstOccurrences(chunks[j], stats)
        /\ \E p \in BlockOrders(Len(chunks)) :
              AddedByRun = ConcatInOrder(local, p)

\* clean_data has returned after the second partition's block was appended
\* before the first partition's
C11_Witness ==
    /\ cpc = "returned"
    /\ Len(chunks) >= 2
    /\ local[1] # <<>> /\ local[2] # <<>> /\ local[1] # local[2]
    /\ AddedByRun # ConcatInOrder(local, [j \in 1..Len(chunks) |-> j])
    /\ SubSeq(AddedByRun, 1, Len(local[2])) = local[2]

----------------------------------------------------------------------------
(* Termination of generate_ohlcv *)

WorkerIds == 1..(CHOOSE n \in WorkerChoices : \A m \in WorkerChoices : m <= n)

\* The steps of the thread that called generate_ohlcv
CallerStep == StartWorker \/ StartWorkersDone \/ JoinWorker \/ GenerateOhlcvReturn

\* The calling thread and every started worker thread keep being scheduled
OhlcvFairness ==
    /\ WF_vars(CallerStep)
    /\ \A w \in WorkerIds : WF_vars(WorkerStep(w))

MaxLiveRows == 2

\* OhlcvInit with at most MaxLiveRows cleaned rows
OhlcvLiveInit == OhlcvInit /\ Len(idata) <= MaxLiveRows

SpecOhlcvFair == OhlcvLiveInit /\ [][OhlcvNext]_vars /\ OhlcvFairness

AllWorkersDone == \A w \in 1..Len(wstate) : wstate[w] = "done"

\* C12: for every interval text the parser accepts (the empty text and "0s"
\* included) and every window with start < end and end - start >= interval,
\* every worker eventually finishes its bucket walk and generate_ohlcv
\* eventually returns.
C12_AcceptedCallReturns ==
    (ipc = "starting" /\ CallStart < CallEnd)
        ~> (ipc = "returned" /\ AllWorkersDone)

\* What holds of the code: a call with a positive interval returns
C12_PositiveIntervalReturns ==
    (ipc = "starting" /\ interval_timedelta > 0)
        ~> (ipc = "returned" /\ AllWorkersDone)

\* Every pass of the while loop of a running worker leaves the loop or moves
\* current_time forward
C12_EveryPassMovesOn ==
    \A w \in 1..Len(wstate) :
        wstate[w] = "running" =>
            \/ WalkStops(current_time[w], interval_timedelta, CallEnd)
            \/ interval_timedelta > 0

(***************************************************************************)
(* The aggregation chunks and the volume of the bars                       *)
(***************************************************************************)
\* The number of whole buckets that fit between start and end
WholeBucketCount == (CallEnd - CallStart) \div interval_timedelta

\* The end of the last whole bucket
RangeEnd == CallStart + WholeBucketCount * interval_timedelta

\* The positions of the rows of chunk with a timestamp in
\* [start, start + n * interval)
InRangeRows(chunk) == TradesIn(chunk, CallStart, RangeEnd - CallStart)

\* The bars of a worker whose bucket holds row i of its chunk
BarsCounting(w, i) ==
    {n \in 1..Len(emitted[w]) :
        i \in TradesIn(wchunk[w], BucketStart(emitted[w][n]), interval_timedelta)}

RECURSIVE SumLens(_)
SumLens(ss) == IF ss = <<>> THEN 0 ELSE Len(Head(ss)) + SumLens(Tail(ss))

RECURSIVE SumVolumes(_)
SumVolumes(bars) ==
    IF bars = <<>> THEN 0 ELSE Head(bars)[6] + SumVolumes(Tail(bars))

\* C13: after one generate_ohlcv call with a positive worker count (more
\* workers than records included) and a positive interval, the chunks of
\* the workers are contiguous, disjoint and cover the cleaned records (in
\* worker order they concatenate to the records); each record of a chunk
\* with a timestamp in [start, start + n * interval), n the number of whole
\* buckets before end, lies in the bucket of exactly one bar of its worker
\* and each other record in the bucket of none; the volume of a bar is the
\* sum of the sizes of the records of its bucket, and the volumes of all
\* emitted bars sum to the sizes of the records in the range.
C13_EachRecordInOneBar ==
    (ipc = "returned" /\ interval_timedelta > 0) =>
        /\ inum_threads > 0
        /\ Len(wchunk) = inum_threads
        /\ ConcatInOrder(wchunk, [j \in 1..inum_threads |-> j]) = idata
        /\ \A w \in 1..inum_threads :
              /\ \A i \in 1..Len(wchunk[w]) :
                    Cardinality(BarsCounting(w, i)) =
                      IF i \in InRangeRows(wchunk[w]) THEN 1 ELSE 0
              /\ \A n \in 1..Len(emitted[w]) :
                    emitted[w][n][6] =
                      SumSizes(wchunk[w],
                               TradesIn(wchunk[w], BucketStart(emitted[w][n]),
                                        interval_timedelta))
        /\ Len(ohlcv_data) = SumLens(emitted)
        /\ SumVolumes(ohlcv_data) = SumSizes(idata, InRangeRows(idata))

\* A call has returned whose last worker took the remainder of an uneven
\* split, with records inside the range, before start and after the last
\* whole bucket
C13_Witness ==
    /\ ipc = "returned"
    /\ interval_timedelta > 0
    /\ Len(idata) % inum_threads # 0
    /\ Len(wchunk[inum_threads]) > Len(idata) \div inum_threads
    /\ ohlcv_data # <<>>
    /\ InRangeRows(idata) # {}
    /\ \E i \in 1..Len(idata) : Strptime(idata[i][1]).secs < CallStart
    /\ \E i \in 1..Len(idata) : Strptime(idata[i][1]).secs >= RangeEnd

\* A call with more workers than records has returned with a bar
C13_WitnessMoreWorkers ==
    /\ ipc = "returned"
    /\ interval_timedelta > 0
    /\ inum_threads > Len(idata)
    /\ ohlcv_data # <<>>

================================================================
